---- MODULE Spec2Model ----
(***************************************************************************)
(* Model of src/src/main.rs: a rock-paper-scissors particle simulation.    *)
(*                                                                         *)
(* The state is the list of spawned entities (Shape, Transform, Text),     *)
(* the snapshot `copy` that simulate() takes before each of its two loops, *)
(* and the values simulate() computes per entity in its first loop.        *)
(*                                                                         *)
(* Geometry.  Translations are Vec3 values of f32.  The model follows the  *)
(* entities that lie on the x axis (theta = 0 at spawn): differences,      *)
(* sums, averages, normalisation and clamping of collinear vectors stay on *)
(* that axis, so the code's arithmetic is exact integer arithmetic there.  *)
(* A float is a record [nan, x]; NaN is the one value with nan = TRUE.     *)
(* Time is counted in tenths of a second and random::<f32>() in tenths,    *)
(* so that  delta * speed * random  and  delta * 60  are integers.         *)
(***************************************************************************)
EXTENDS Integers, Sequences, FiniteSets

VARIABLES entities, copy, locals, selfWrites, number, pc, frame, panicked

vars == <<entities, copy, locals, selfWrites, number, pc, frame, panicked>>

(***************************************************************************)
(* Bounds of the model.                                                    *)
(***************************************************************************)
\* largest population spawned by startup (the program spawns 1000)
MaxAgents == 3
\* number of frames (runs of simulate) explored
MaxFrames == 2
\* spawn points on the x axis, all with radius in [100, 800)
StartPositions == {100, 110, 120, 795}
\* values of time.delta_seconds(), in tenths of a second
DeltaTenths == {1}
\* values of random::<f32>(), in tenths: a subset of [0, 1)
RandomTenths == {9}

(***************************************************************************)
(* Program constants.                                                      *)
(***************************************************************************)
\* Settings { speed: 100. }
speed == 100
\* crowding speed: time.delta_seconds() * 60.
CollisionSpeed == 60
\* crowding radius: distance(this_translation) < 20.
CollisionRange == 20
\* capture radius: distance(other_transform.translation) < 20.
HitSize == 20
\* arena radius: clamp_length_max(800.)
MaxSize == 800

(***************************************************************************)
(* enum Shape and its cyclic Ord / PartialEq.                              *)
(***************************************************************************)
Shape == {"Scissors", "Paper", "Rock"}

\* the catch-all arm swallows (Rock, Scissors)
cmpRockScissorsEqual(a, b) ==
    IF <<a, b>> \in {<<"Scissors", "Paper">>, <<"Paper", "Rock">>}
    THEN "Greater"
    ELSE IF <<a, b>> \in {<<"Scissors", "Rock">>, <<"Paper", "Scissors">>,
                          <<"Rock", "Paper">>}
    THEN "Less"
    ELSE "Equal"

cmp(a, b) ==
    IF <<a, b>> \in {<<"Scissors", "Paper">>, <<"Paper", "Rock">>,
                     <<"Rock", "Scissors">>}
    THEN "Greater"
    ELSE IF <<a, b>> \in {<<"Scissors", "Rock">>, <<"Paper", "Scissors">>,
                          <<"Rock", "Paper">>}
    THEN "Less"
    ELSE "Equal"

partial_cmp(a, b) == cmp(a, b)

\* the comparison with Equal negated
eqInverted(a, b) == partial_cmp(a, b) # "Equal"

eq(a, b) == partial_cmp(a, b) = "Equal"

\* the operator > that PartialOrd derives from partial_cmp
gt(a, b) == partial_cmp(a, b) = "Greater"

(***************************************************************************)
(* f32 and Vec3 on the x axis.                                             *)
(***************************************************************************)
Vec(x) == [nan |-> FALSE, x |-> x]

NaN == [nan |-> TRUE, x |-> 0]

ZERO == Vec(0)

Abs(n) == IF n < 0 THEN -n ELSE n

Sgn(n) == IF n > 0 THEN 1 ELSE IF n < 0 THEN -1 ELSE 0

\* Vec3 + Vec3
VAdd(a, b) == IF a.nan \/ b.nan THEN NaN ELSE Vec(a.x + b.x)

\* Vec3 - Vec3
VSub(a, b) == IF a.nan \/ b.nan THEN NaN ELSE Vec(a.x - b.x)

\* Vec3 * k for a finite scalar k
VScale(a, k) == IF a.nan THEN NaN ELSE Vec(a.x * k)

\* Vec3::distance
distance(a, b) == IF a.nan \/ b.nan THEN NaN ELSE Vec(Abs(a.x - b.x))

\* f32 <, false whenever an operand is NaN
FLt(a, b) == ~a.nan /\ ~b.nan /\ a.x < b.x

\* f32::total_cmp; nanLow tells whether the NaNs at hand carry the sign bit
total_cmp(a, b, nanLow) ==
    IF a.nan /\ b.nan THEN "Equal"
    ELSE IF a.nan THEN (IF nanLow THEN "Less" ELSE "Greater")
    ELSE IF b.nan THEN (IF nanLow THEN "Greater" ELSE "Less")
    ELSE IF a.x < b.x THEN "Less"
    ELSE IF a.x > b.x THEN "Greater"
    ELSE "Equal"

\* Vec3::normalize: self * (1 / length), which is 0 * inf = NaN for ZERO
normalize(a) == IF a.nan \/ a.x = 0 THEN NaN ELSE Vec(Sgn(a.x))

\* Vec3::normalize_or_zero: ZERO unless 1 / length is finite and positive
normalize_or_zero(a) == IF a.nan \/ a.x = 0 THEN ZERO ELSE Vec(Sgn(a.x))

\* Vec3::clamp_length_max: rescaled only if length_squared > max * max
clamp_length_max(a, max) ==
    IF a.nan THEN NaN
    ELSE IF a.x * a.x > max * max THEN Vec(Sgn(a.x) * max)
    ELSE a

(***************************************************************************)
(* startup: spawn `number` entities with a random shape and translation    *)
(* and the text that belongs to the shape.                                 *)
(***************************************************************************)
Glyph(s) ==
    CASE s = "Scissors" -> "s"
      [] s = "Paper" -> "p"
      [] s = "Rock" -> "r"

Colour(s) ==
    CASE s = "Scissors" -> "RED"
      [] s = "Paper" -> "WHITE"
      [] s = "Rock" -> "GRAY"

Spawn(s, x) ==
    [shape |-> s, translation |-> Vec(x), value |-> Glyph(s), color |-> Colour(s)]

Init ==
    /\ entities = <<>>
    /\ copy = <<>>
    /\ locals = <<>>
    /\ selfWrites = {}
    /\ number = 0
    /\ pc = "startup"
    /\ frame = 0
    /\ panicked = FALSE

startup ==
    /\ pc = "startup"
    /\ \E n \in 2..MaxAgents :
         \E ss \in [1..n -> Shape], xs \in [1..n -> StartPositions] :
            /\ entities' = [i \in 1..n |-> Spawn(ss[i], xs[i])]
            /\ number' = n
    /\ pc' = "motion"
    /\ UNCHANGED <<copy, locals, selfWrites, frame, panicked>>

(***************************************************************************)
(* simulate, first loop (MotionUpdate): lines 103-163.                     *)
(***************************************************************************)
\* the order in which the query yields the entities
QueryOrder(ents) == [i \in 1..Len(ents) |-> i]

\* let copy = entities.iter().map(|(shape, transform, _)| ...).collect()
MotionCopy(ents) ==
    [j \in 1..Len(ents) |->
        [shape |-> ents[j].shape, translation |-> ents[j].translation]]

\* the filter keeps every other entry of the snapshot, whatever its shape
RECURSIVE MinByFromOthers(_, _, _, _, _)
MinByFromOthers(c, this, j, best, nanLow) ==
    IF j > Len(c) THEN best
    ELSE IF c[j].shape = this.shape /\ c[j].translation = this.translation
    THEN MinByFromOthers(c, this, j + 1, best, nanLow)
    ELSE IF best = 0 THEN MinByFromOthers(c, this, j + 1, j, nanLow)
    ELSE IF total_cmp(distance(c[best].translation, this.translation),
                      distance(c[j].translation, this.translation),
                      nanLow) = "Greater"
    THEN MinByFromOthers(c, this, j + 1, j, nanLow)
    ELSE MinByFromOthers(c, this, j + 1, best, nanLow)

\* copy.iter().filter(shape != this_shape).min_by(distance total_cmp):
\* the index of the first minimum, 0 for None.  best is the minimum so far.
RECURSIVE MinByFrom(_, _, _, _, _)
MinByFrom(c, this, j, best, nanLow) ==
    IF j > Len(c) THEN best
    ELSE IF eq(c[j].shape, this.shape) THEN MinByFrom(c, this, j + 1, best, nanLow)
    ELSE IF best = 0 THEN MinByFrom(c, this, j + 1, j, nanLow)
    ELSE IF total_cmp(distance(c[best].translation, this.translation),
                      distance(c[j].translation, this.translation),
                      nanLow) = "Greater"
    THEN MinByFrom(c, this, j + 1, j, nanLow)
    ELSE MinByFrom(c, this, j + 1, best, nanLow)

closest(c, this, nanLow) == MinByFrom(c, this, 1, 0, nanLow)

\* match this_shape.cmp(&closest.0): 1, -1, or 0 for the unreachable!() arm
Sign(this_shape, other_shape) ==
    CASE cmp(this_shape, other_shape) = "Greater" -> 1
      [] cmp(this_shape, other_shape) = "Less" -> -1
      [] OTHER -> 0

\* the indices the filter_map of close_entities keeps
close_entities(c, this_translation) ==
    {j \in 1..Len(c) :
        FLt(distance(c[j].translation, this_translation), Vec(CollisionRange))}

RECURSIVE SumX(_, _)
SumX(c, S) ==
    IF S = {} THEN 0
    ELSE LET j == CHOOSE k \in S : TRUE
         IN  c[j].translation.x + SumX(c, S \ {j})

\* close_entities.sum() / close_entities.count(), kept as the fraction
\* num / den; an empty sum is ZERO and ZERO / 0.0 is NaN
average(c, this_translation) ==
    LET close == close_entities(c, this_translation)
    IN  [nan |-> close = {}, num |-> SumX(c, close), den |-> Cardinality(close)]

\* this_translation - average, scaled by the positive count (the scale does
\* not change what normalize_or_zero returns)
SubAverage(this_translation, avg) ==
    IF this_translation.nan \/ avg.nan THEN NaN
    ELSE Vec(this_translation.x * avg.den - avg.num)

\* the crowding direction taken with normalize instead of normalize_or_zero
CrowdingNormalize(c, this_translation, d) ==
    VScale(normalize(SubAverage(this_translation, average(c, this_translation))),
           (d * CollisionSpeed) \div 10)

\* the block of lines 148-160
Crowding(c, this_translation, d) ==
    VScale(normalize_or_zero(SubAverage(this_translation, average(c, this_translation))),
           (d * CollisionSpeed) \div 10)

\* normalize(closest - this) * delta * speed * sign * random
Attraction(direction, d, sign, r) ==
    VScale(direction, ((d * speed * r) \div 100) * sign)

\* what one iteration of the loop computes for one entity, k its closest
Locals(c, this, k, d, r) ==
    IF k = 0 THEN [closest |-> 0]
    ELSE [closest |-> k,
          direction |-> normalize(VSub(c[k].translation, this.translation)),
          sign |-> Sign(this.shape, c[k].shape),
          attraction |->
              Attraction(normalize(VSub(c[k].translation, this.translation)),
                         d, Sign(this.shape, c[k].shape), r),
          average |-> average(c, this.translation),
          crowding |-> Crowding(c, this.translation, d)]

\* the loop body without its `continue`: an entity with no closest still
\* gets the crowding displacement
MovedAlwaysCrowded(c, this, l, d) ==
    IF l.closest = 0
    THEN [this EXCEPT !.translation =
            clamp_length_max(VAdd(this.translation, Crowding(c, this.translation, d)),
                             MaxSize)]
    ELSE [this EXCEPT !.translation =
            clamp_length_max(VAdd(VAdd(this.translation, l.attraction), l.crowding),
                             MaxSize)]

\* the entity after its iteration: `continue` leaves it alone, otherwise
\* (this_translation + attraction + crowding).clamp_length_max(800.)
Moved(c, this, l, d) ==
    IF l.closest = 0 THEN this
    ELSE [this EXCEPT !.translation =
            clamp_length_max(VAdd(VAdd(this.translation, l.attraction), l.crowding),
                             MaxSize)]

\* the entities that reach the unreachable!() arm
Unreachable(ls) == {i \in DOMAIN ls : ls[i].closest # 0 /\ ls[i].sign = 0}

\* whether the NaN distances of this frame sort below every number (sign
\* bit set, as x86 produces for 0 * inf) or above; it is a choice only when
\* some translation is NaN
NaNSigns(ents) ==
    IF \E i \in 1..Len(ents) : ents[i].translation.nan THEN BOOLEAN ELSE {FALSE}

\* the end of one iteration for entity i, l being what it computed: the
\* unreachable!() arm panics, anything else writes the translation
Written(st, seen, i, d, l) ==
    IF l.closest # 0 /\ l.sign = 0
    THEN [ents |-> st.ents, ls |-> [st.ls EXCEPT ![i] = l], panicked |-> TRUE]
    ELSE [ents |-> [st.ents EXCEPT ![i] = Moved(seen, st.ents[i], l, d)],
          ls |-> [st.ls EXCEPT ![i] = l], panicked |-> FALSE]

\* one iteration of `for (this_shape, this_transform, _) in &mut entities`
\* for entity i, which sees in `seen` the other entities' shapes and
\* translations; st.ents is the live store, st.ls what the iterations
\* computed, st.panicked whether unreachable!() was hit
Iterate(st, seen, i, d, r, nanLow) ==
    Written(st, seen, i, d,
            Locals(seen, st.ents[i], closest(seen, st.ents[i], nanLow), d, r))

\* the loop reads the other entities from the live store, not from copy
RECURSIVE MotionLoopLive(_, _, _, _, _, _, _)
MotionLoopLive(st, c, order, k, d, rs, nanLow) ==
    IF k > Len(order) \/ st.panicked THEN st
    ELSE MotionLoopLive(Iterate(st, MotionCopy(st.ents), order[k], d, rs[order[k]], nanLow),
                        c, order, k + 1, d, rs, nanLow)

\* lines 107-163: the entities visited in `order`, each reading the
\* snapshot c; a panic ends the loop
RECURSIVE MotionLoop(_, _, _, _, _, _, _)
MotionLoop(st, c, order, k, d, rs, nanLow) ==
    IF k > Len(order) \/ st.panicked THEN st
    ELSE MotionLoop(Iterate(st, c, order[k], d, rs[order[k]], nanLow),
                    c, order, k + 1, d, rs, nanLow)

\* the whole phase for one delta d, the jitter rs[i] of each entity and
\* one iteration order
Motion(ents, order, d, rs, nanLow) ==
    MotionLoop([ents |-> ents,
                ls |-> [i \in 1..Len(ents) |-> [closest |-> 0]],
                panicked |-> FALSE],
               MotionCopy(ents), order, 1, d, rs, nanLow)

MotionUpdate ==
    /\ pc = "motion"
    /\ frame < MaxFrames
    /\ \E d \in DeltaTenths, nanLow \in NaNSigns(entities),
          rs \in [1..Len(entities) -> RandomTenths] :
         \E st \in {Motion(entities, QueryOrder(entities), d, rs, nanLow)} :
             /\ copy' = MotionCopy(entities)
             /\ locals' = st.ls
             /\ entities' = st.ents
             /\ panicked' = st.panicked
             /\ pc' = IF st.panicked THEN "panicked" ELSE "conversion"
    /\ UNCHANGED <<selfWrites, number, frame>>

(***************************************************************************)
(* simulate, second loop (ConversionUpdate): lines 165-185.                *)
(***************************************************************************)
\* let copy = entities.iter().map(|(shape, transform, text)| ...).collect()
ConversionCopy(ents) ==
    [j \in 1..Len(ents) |->
        [shape |-> ents[j].shape, translation |-> ents[j].translation,
         value |-> ents[j].value, color |-> ents[j].color]]

\* the body without the distance test of lines 174-177
VisitNoRange(st, c, t, j) ==
    LET this == c[t]
        other == st.ents[j]
    IN  IF eq(this.shape, other.shape) THEN st
        ELSE IF gt(this.shape, other.shape)
        THEN [ents |-> [st.ents EXCEPT ![j] =
                          [@ EXCEPT !.shape = this.shape,
                                    !.value = this.value,
                                    !.color = this.color]],
              selfw |-> IF j = t THEN st.selfw \cup {j} ELSE st.selfw]
        ELSE st

\* the body also moves the captured entity onto its captor
VisitTeleports(st, c, t, j) ==
    LET this == c[t]
        other == st.ents[j]
    IN  IF eq(this.shape, other.shape) THEN st
        ELSE IF /\ FLt(distance(this.translation, other.translation), Vec(HitSize))
                /\ gt(this.shape, other.shape)
        THEN [ents |-> [st.ents EXCEPT ![j] =
                          [@ EXCEPT !.shape = this.shape,
                                    !.translation = this.translation,
                                    !.value = this.value,
                                    !.color = this.color]],
              selfw |-> IF j = t THEN st.selfw \cup {j} ELSE st.selfw]
        ELSE st

\* the body without line 182: the colour is not copied
VisitKeepsColour(st, c, t, j) ==
    LET this == c[t]
        other == st.ents[j]
    IN  IF eq(this.shape, other.shape) THEN st
        ELSE IF /\ FLt(distance(this.translation, other.translation), Vec(HitSize))
                /\ gt(this.shape, other.shape)
        THEN [ents |-> [st.ents EXCEPT ![j] =
                          [@ EXCEPT !.shape = this.shape,
                                    !.value = this.value]],
              selfw |-> IF j = t THEN st.selfw \cup {j} ELSE st.selfw]
        ELSE st

\* the captured entity is turned one step the wrong way round the cycle,
\* into the shape it beats, instead of into its captor's shape
VisitRotates(st, c, t, j) ==
    LET this == c[t]
        other == st.ents[j]
        beaten == CHOOSE s \in Shape : gt(other.shape, s)
    IN  IF eq(this.shape, other.shape) THEN st
        ELSE IF /\ FLt(distance(this.translation, other.translation), Vec(HitSize))
                /\ gt(this.shape, other.shape)
        THEN [ents |-> [st.ents EXCEPT ![j] =
                          [@ EXCEPT !.shape = beaten,
                                    !.value = Glyph(beaten),
                                    !.color = Colour(beaten)]],
              selfw |-> IF j = t THEN st.selfw \cup {j} ELSE st.selfw]
        ELSE st

\* lines 171-183 for the snapshot entry t and the live entity j.
\* st.ents is the live store, st.selfw the entities written from their own
\* snapshot entry.
Visit(st, c, t, j) ==
    LET this == c[t]
        other == st.ents[j]
    IN  IF eq(this.shape, other.shape) THEN st
        ELSE IF /\ FLt(distance(this.translation, other.translation), Vec(HitSize))
                /\ gt(this.shape, other.shape)
        THEN [ents |-> [st.ents EXCEPT ![j] =
                          [@ EXCEPT !.shape = this.shape,
                                    !.value = this.value,
                                    !.color = this.color]],
              selfw |-> IF j = t THEN st.selfw \cup {j} ELSE st.selfw]
        ELSE st

\* for (other_shape, other_transform, other_text) in &mut entities
RECURSIVE InnerLoop(_, _, _, _, _)
InnerLoop(st, c, t, liveOrder, k) ==
    IF k > Len(liveOrder) THEN st
    ELSE InnerLoop(Visit(st, c, t, liveOrder[k]), c, t, liveOrder, k + 1)

\* for (this_shape, this_transform, this_text) in copy
RECURSIVE OuterLoop(_, _, _, _, _)
OuterLoop(st, c, snapOrder, liveOrder, k) ==
    IF k > Len(snapOrder) THEN st
    ELSE OuterLoop(InnerLoop(st, c, snapOrder[k], liveOrder, 1),
                   c, snapOrder, liveOrder, k + 1)

\* the elements of s whose index is in keep, in order
RECURSIVE Kept(_, _, _)
Kept(s, keep, i) ==
    IF i > Len(s) THEN <<>>
    ELSE IF i \in keep THEN <<s[i]>> \o Kept(s, keep, i + 1)
    ELSE Kept(s, keep, i + 1)

\* a captured entity is despawned instead of converted
ConvertDespawn(ents, snapOrder, liveOrder) ==
    LET st == OuterLoop([ents |-> ents, selfw |-> {}], ConversionCopy(ents),
                        snapOrder, liveOrder, 1)
    IN  [ents |-> Kept(ents, {i \in 1..Len(ents) : st.ents[i].shape = ents[i].shape}, 1),
         selfw |-> st.selfw]

\* the whole phase, the snapshot visited in snapOrder and the live
\* entities in liveOrder
Convert(ents, snapOrder, liveOrder) ==
    OuterLoop([ents |-> ents, selfw |-> {}], ConversionCopy(ents),
              snapOrder, liveOrder, 1)

ConversionUpdate ==
    /\ pc = "conversion"
    /\ \E st \in {Convert(entities, QueryOrder(entities), QueryOrder(entities))} :
           /\ entities' = st.ents
           /\ selfWrites' = st.selfw
    /\ copy' = ConversionCopy(entities)
    /\ frame' = frame + 1
    /\ pc' = "motion"
    /\ UNCHANGED <<locals, number, panicked>>

Next == startup \/ MotionUpdate \/ ConversionUpdate

Spec == Init /\ [][Next]_vars

(***************************************************************************)
(* Properties.                                                             *)
(*                                                                         *)
(* After MotionUpdate `copy` is the snapshot of line 103 and `entities`    *)
(* the moved store; after ConversionUpdate `copy` is the snapshot of       *)
(* line 165 and `entities` the converted store.                            *)
(***************************************************************************)
AfterMotion == pc \in {"conversion", "panicked"}

AfterConversion == pc = "motion" /\ frame > 0

Agents == 1..Len(entities)

Orders(n) == {p \in [1..n -> 1..n] : \A i, j \in 1..n : p[i] = p[j] => i = j}

Shapes(ents) == [i \in 1..Len(ents) |-> ents[i].shape]

\* both translations are numbers and less than range apart
Within(a, b, range) == FLt(distance(a, b), Vec(range))

\* C1: after one ConversionUpdate phase, for every pair of agents A and B
\* that were less than the capture radius apart and where A's pre-phase type
\* beat B's pre-phase type, B's type is A's pre-phase type.
C1_ConvertedByDominator ==
    AfterConversion =>
        \A a, b \in Agents :
            (/\ Within(copy[a].translation, copy[b].translation, HitSize)
             /\ gt(copy[a].shape, copy[b].shape))
            => entities[b].shape = copy[a].shape

\* C2: the outcome of a ConversionUpdate phase is the same for every order
\* in which the snapshot and the live entities are enumerated.
C2_ConversionOrderIndependent ==
    pc = "conversion" =>
        \A p, q, p2, q2 \in Orders(Len(entities)) :
            Shapes(Convert(entities, p, p2).ents) = Shapes(Convert(entities, q, q2).ents)

\* C3: after startup and after any number of frames every agent's position
\* has a magnitude of at most max_size (800).
C3_InsideArena ==
    pc # "startup" =>
        \A i \in Agents :
            /\ ~entities[i].translation.nan
            /\ Abs(entities[i].translation.x) <= MaxSize

AllOneShape(c) == \A i, j \in 1..Len(c) : c[i].shape = c[j].shape

\* C4: if all agents share one type at the start of a frame, MotionUpdate
\* leaves every position unchanged: no agent gets an attraction or a
\* crowding displacement.
C4_OneShapeNoMovement ==
    (AfterMotion /\ AllOneShape(copy)) =>
        \A i \in Agents :
            /\ entities[i].translation = copy[i].translation
            /\ locals[i].closest = 0

\* C4 witness: a frame that started with one shape only and with two agents
\* at distinct points within the crowding radius has run its MotionUpdate.
C4_Witness ==
    /\ AfterMotion
    /\ AllOneShape(copy)
    /\ number = MaxAgents
    /\ \E i, j \in Agents :
          /\ copy[i].translation # copy[j].translation
          /\ Within(copy[i].translation, copy[j].translation, CollisionRange)

\* the case of C5: exactly two agents, of one type, at distinct positions
\* within the collision radius of each other when the frame starts
TwoCrowdedAlike ==
    /\ AfterMotion
    /\ number = 2
    /\ copy[1].shape = copy[2].shape
    /\ copy[1].translation # copy[2].translation
    /\ Within(copy[1].translation, copy[2].translation, CollisionRange)

\* C5 as stated: for exactly two agents of the same type at distinct
\* positions within the collision radius, MotionUpdate pushes them apart:
\* after the frame they are farther apart than before.
C5_PushedApart ==
    TwoCrowdedAlike =>
        FLt(distance(copy[1].translation, copy[2].translation),
            distance(entities[1].translation, entities[2].translation))

\* C5 amended: for exactly two agents of the same type at distinct positions
\* within the collision radius, MotionUpdate finds no different-type
\* neighbour for either, skips both, and their distance stays what it was.
C5_BothSkipped ==
    TwoCrowdedAlike =>
        /\ locals[1].closest = 0 /\ locals[2].closest = 0
        /\ distance(entities[1].translation, entities[2].translation)
             = distance(copy[1].translation, copy[2].translation)
        /\ pc = "conversion"

\* C5 witness: MotionUpdate has run on two crowded agents of one type.
C5_Witness == TwoCrowdedAlike /\ frame = 0

\* C6: in ConversionUpdate no agent's live type or text is overwritten from
\* that agent's own snapshot entry, also when other agents converted it
\* earlier in the phase.
C6_NoSelfConversion == selfWrites = {}

\* C7: MotionUpdate never produces a NaN position: an agent whose nearest
\* different-type neighbour is at exactly the agent's own position gets the
\* zero vector as direction, a zero attraction term and a defined position.
C7_NoNaN ==
    AfterMotion =>
        \A i \in Agents :
            (/\ locals[i].closest # 0
             /\ ~copy[i].translation.nan
             /\ copy[locals[i].closest].translation = copy[i].translation)
            => /\ locals[i].direction = ZERO
               /\ locals[i].attraction = ZERO
               /\ ~entities[i].translation.nan

\* the dominance cycle: Scissors beats Paper beats Rock beats Scissors
Cycle == {<<"Scissors", "Paper">>, <<"Paper", "Rock">>, <<"Rock", "Scissors">>}

\* C8: cmp is the strict 3-cycle: Greater on the cycle, Less on the reversed
\* pairs, Equal exactly for identical types; every type is beaten by exactly
\* one type and beats exactly one type.
C8_StrictCycle ==
    \A i, j \in Agents :
        LET a == entities[i].shape
            b == entities[j].shape
        IN  /\ (cmp(a, b) = "Greater") = (<<a, b>> \in Cycle)
            /\ (cmp(a, b) = "Less") = (<<b, a>> \in Cycle)
            /\ (cmp(a, b) = "Equal") = (a = b)
            /\ eq(a, b) = (a = b)
            /\ Cardinality({t \in Shape : gt(t, a)}) = 1
            /\ Cardinality({t \in Shape : gt(a, t)}) = 1

\* C8 witness: all three shapes are present, so every pair is compared.
C8_Witness ==
    /\ pc # "startup"
    /\ {entities[i].shape : i \in Agents} = Shape

\* C9: the number of agents is constant: in every state after startup it is
\* the number that startup spawned.
C9_CountConstant == pc # "startup" => Len(entities) = number

\* C9 witness: a ConversionUpdate that converted an agent has run and the
\* population is the spawned one.
C9_Witness ==
    /\ AfterConversion
    /\ Shapes(entities) # Shapes(copy)
    /\ Len(entities) = number
    /\ number = MaxAgents

\* agent i was processed by MotionUpdate and no other agent was within the
\* collision radius of it
Isolated(i) ==
    /\ locals[i].closest # 0
    /\ \A j \in Agents \ {i} :
          ~Within(copy[j].translation, copy[i].translation, CollisionRange)

\* C10 as stated: for an agent with no other agent within the collision
\* radius the divisor of the average is not zero, nothing is NaN, and the
\* local-density centroid is the zero vector.
C10_CentroidZero ==
    AfterMotion =>
        \A i \in Agents :
            Isolated(i) =>
                /\ locals[i].average.den # 0
                /\ ~locals[i].average.nan
                /\ locals[i].average.num = 0

\* C10 amended: for an agent with no other agent within the collision
\* radius the crowding displacement is the zero vector, never NaN; if the
\* agent's position is a number, the agent itself is the one neighbour
\* counted (divisor 1) and the centroid is the agent's own position, not
\* the zero vector.
C10_CrowdingZero ==
    AfterMotion =>
        \A i \in Agents :
            Isolated(i) =>
                /\ locals[i].crowding = ZERO
                /\ ~copy[i].translation.nan =>
                      /\ locals[i].average.den = 1
                      /\ ~locals[i].average.nan
                      /\ locals[i].average.num = copy[i].translation.x

\* C10 witness: MotionUpdate has processed an agent at a defined position
\* with no other agent within the collision radius.
C10_Witness ==
    /\ AfterMotion
    /\ \E i \in Agents : Isolated(i) /\ ~copy[i].translation.nan

\* some agent within the capture radius of b had, when ConversionUpdate
\* took its snapshot, the type that beats b's type
DominatorNear(b) ==
    \E a \in Agents :
        /\ Within(copy[a].translation, copy[b].translation, HitSize)
        /\ gt(copy[a].shape, copy[b].shape)

\* C11: an agent that at the start of a ConversionUpdate phase has no agent
\* of the type that beats its own within the capture radius keeps its type
\* and its text (glyph and colour) through that phase.
C11_NoDominatorNoChange ==
    AfterConversion =>
        \A b \in Agents :
            ~DominatorNear(b) =>
                /\ entities[b].shape = copy[b].shape
                /\ entities[b].value = copy[b].value
                /\ entities[b].color = copy[b].color

\* C11 witness: a ConversionUpdate converted some agent while another agent,
\* with an agent of a different type within the capture radius but no
\* dominator there, went through the phase.
C11_Witness ==
    /\ AfterConversion
    /\ Shapes(entities) # Shapes(copy)
    /\ \E b \in Agents :
          /\ ~DominatorNear(b)
          /\ \E a \in Agents :
                /\ copy[a].shape # copy[b].shape
                /\ Within(copy[a].translation, copy[b].translation, HitSize)

\* C12: the unreachable!() arm of the sign computation is never hit: the
\* neighbour selected as closest never compares Equal to the agent's type.
C12_NeverUnreachable ==
    /\ ~panicked
    /\ pc # "panicked"
    /\ AfterMotion =>
          /\ Unreachable(locals) = {}
          /\ \A i \in Agents :
              locals[i].closest # 0 =>
                  /\ locals[i].sign # 0
                  /\ cmp(copy[i].shape, copy[locals[i].closest].shape) # "Equal"

\* C12 witness: MotionUpdate has computed the sign for every agent of a
\* population with all three shapes.
C12_Witness ==
    /\ AfterMotion
    /\ {copy[i].shape : i \in Agents} = Shape
    /\ \A i \in Agents : locals[i].closest # 0

\* C13: within MotionUpdate every new position is computed from the
\* positions and types of the start of the phase and the agent's own
\* jitter, so the phase gives the same store for every order in which the
\* loop visits the agents.
C13_MotionOrderIndependent ==
    [][pc = "motion" =>
          \E d \in DeltaTenths, nanLow \in NaNSigns(entities),
             rs \in [Agents -> RandomTenths] :
              \A p \in Orders(Len(entities)) :
                  entities' = Motion(entities, p, d, rs, nanLow).ents]_vars

\* C13 witness: MotionUpdate moved an agent that a later agent of the loop
\* had as its closest neighbour.
C13_Witness ==
    /\ AfterMotion
    /\ \E i, j \in Agents :
          /\ i < j
          /\ entities[i].translation # copy[i].translation
          /\ locals[j].closest = i
          /\ entities[j].translation # copy[j].translation

\* agent i was processed by MotionUpdate and it and its closest
\* different-type neighbour were at two distinct, defined positions
HasDirection(i) ==
    /\ locals[i].closest # 0
    /\ ~copy[i].translation.nan
    /\ ~copy[locals[i].closest].translation.nan
    /\ copy[locals[i].closest].translation # copy[i].translation

\* the x component of the vector from agent i to its closest neighbour
ToClosest(i) == copy[locals[i].closest].translation.x - copy[i].translation.x

\* the attraction of agent i is a defined displacement that goes toward the
\* closest neighbour when i beats it and away from it when i is beaten; the
\* zero displacement goes in neither wrong direction
Directed(i) ==
    /\ ~locals[i].attraction.nan
    /\ ~copy[i].translation.nan
    /\ ~copy[locals[i].closest].translation.nan
    /\ gt(copy[i].shape, copy[locals[i].closest].shape) =>
          Sgn(locals[i].attraction.x) \in {0, Sgn(ToClosest(i))}
    /\ gt(copy[locals[i].closest].shape, copy[i].shape) =>
          Sgn(locals[i].attraction.x) \in {0, -Sgn(ToClosest(i))}

\* C14: the attraction displacement of every agent that has a nearest
\* different-type neighbour points toward that neighbour when the agent's
\* type beats the neighbour's type, and directly away from it when the
\* neighbour's type beats the agent's type.
C14_ApproachOrFlee ==
    AfterMotion =>
        \A i \in Agents : locals[i].closest # 0 => Directed(i)

\* The direction is as C14 says whenever the agent and its neighbour are at
\* two distinct, defined positions.
ApproachOrFleeWhenApart ==
    AfterMotion =>
        \A i \in Agents : HasDirection(i) => Directed(i)

\* in one MotionUpdate one agent approached the neighbour it
\* beats and another fled the neighbour that beats it, both by a nonzero
\* displacement.
ApproachAndFlee ==
    /\ AfterMotion
    /\ \E i, j \in Agents :
          /\ HasDirection(i) /\ HasDirection(j)
          /\ gt(copy[i].shape, copy[locals[i].closest].shape)
          /\ locals[i].attraction.x * ToClosest(i) > 0
          /\ gt(copy[locals[j].closest].shape, copy[j].shape)
          /\ locals[j].attraction.x * ToClosest(j) < 0

Translations(ents) == [i \in 1..Len(ents) |-> ents[i].translation]

Texts(ents) == [i \in 1..Len(ents) |-> <<ents[i].value, ents[i].color>>]

\* C15: MotionUpdate changes translations only and leaves every shape and
\* text unchanged; ConversionUpdate changes shapes and texts only and leaves
\* every translation unchanged.
C15_DisjointWrites ==
    [][/\ pc = "motion" =>
             /\ Shapes(entities') = Shapes(entities)
             /\ Texts(entities') = Texts(entities)
       /\ pc = "conversion" =>
             Translations(entities') = Translations(entities)]_vars

\* C15 witness: a frame in which MotionUpdate moved an agent and
\* ConversionUpdate then converted that agent.
C15_Witness ==
    /\ AfterConversion
    /\ \E i \in Agents :
          /\ locals[i].closest # 0
          /\ locals[i].attraction # ZERO
          /\ entities[i].shape # copy[i].shape
          /\ entities[i].translation = copy[i].translation

\* C16: in every state each agent's text mirrors its shape: glyph s and
\* red for Scissors, p and white for Paper, r and gray for Rock.
C16_TextMirrorsShape ==
    \A i \in Agents :
        /\ entities[i].value = Glyph(entities[i].shape)
        /\ entities[i].color = Colour(entities[i].shape)

\* C16 witness: a ConversionUpdate has converted an agent, whose text is
\* now that of its new shape.
C16_Witness ==
    /\ AfterConversion
    /\ \E i \in Agents :
          /\ entities[i].shape # copy[i].shape
          /\ entities[i].value = Glyph(entities[i].shape)
          /\ entities[i].value # copy[i].value

\* C17: once every agent has the same type, no later step changes a type,
\* a text or a position.
C17_OneShapeTerminal ==
    [][(pc # "startup" /\ AllOneShape(entities)) => entities' = entities]_vars

\* C17 witness: a whole second frame has run on a population of one shape
\* with two agents at distinct positions within the crowding radius.
C17_Witness ==
    /\ AfterConversion
    /\ frame >= 2
    /\ AllOneShape(copy)
    /\ \A i \in Agents : locals[i].closest = 0
    /\ \E i, j \in Agents :
          /\ copy[i].translation # copy[j].translation
          /\ Within(copy[i].translation, copy[j].translation, CollisionRange)

ShapesPresent(ents) == {ents[i].shape : i \in 1..Len(ents)}

\* C18: a type that is extinct never reappears: the types present after a
\* step of a frame are among the types present before it.
C18_ExtinctStaysExtinct ==
    [][pc # "startup" => ShapesPresent(entities') \subseteq ShapesPresent(entities)]_vars

\* C18 witness: a ConversionUpdate made a type extinct.
C18_Witness ==
    /\ AfterConversion
    /\ ShapesPresent(entities) # ShapesPresent(copy)
    /\ ShapesPresent(entities) \subseteq ShapesPresent(copy)

====
